---- MODULE Spec2Model ----
(***************************************************************************)
(* A model of vai's job lifecycle manager (JobManager, manager.go), the    *)
(* process registry (runningProcesses, executor.go), the command runner    *)
(* (runCommand) and the dispatch goroutines that drive them (watch.go).    *)
(*                                                                         *)
(* Every dispatch goroutine (a "call") registers one job name, runs the    *)
(* job's command under the returned context and deregisters.  A run        *)
(* instance is identified by the id that Register assigns; the OS process  *)
(* a run starts carries the same number, so a process handle in the        *)
(* registry is the id of the instance that started it.                     *)
(*                                                                         *)
(* The execution engine itself (Execute, executeJob, runCommand on a tree  *)
(* of series, parallel, before and after jobs) is modelled for one run of  *)
(* one top-level job, under SpecExec; there a process handle is the index  *)
(* of the job node whose command started it.                               *)
(***************************************************************************)
EXTENDS Integers, Sequences, FiniteSets, TLC

\* Number of dispatch goroutines (triggers) of one execution under Spec.
MaxCalls == 2
\* Number of dispatch goroutines of one execution under SpecReg.
MaxRegCalls == 3

Calls == 1..MaxCalls
RegCalls == 1..MaxRegCalls
AllCalls == Calls \cup RegCalls
\* Instance ids: nextID starts at 0 and is incremented once per Register.
Ids == AllCalls
\* The job names of the configuration.
Names == {"a", "b"}
NoName == "none"

\* A Job of the configuration: at most one of cmd, series and parallel is set
\* (kind), kids are the Series or Parallel children, before and after the hooks.
Job(kind, before, kids, after) ==
    [kind |-> kind, before |-> before, kids |-> kids, after |-> after]

\* The job trees the execution engine is run on under SpecExec, one node per
\* Job value, children referred to by their index in the table:
\*   1     series [2, 4], where child 2 has the before hook 3
\*   5     parallel [6, 7] with the after hook 8
\*   9     a command with the before hooks [10, 11] and the after hooks [12, 13]
JobTable == <<
    Job("series",   <<>>,       <<2, 4>>, <<>>),
    Job("cmd",      <<3>>,      <<>>,     <<>>),
    Job("cmd",      <<>>,       <<>>,     <<>>),
    Job("cmd",      <<>>,       <<>>,     <<>>),
    Job("parallel", <<>>,       <<6, 7>>, <<8>>),
    Job("cmd",      <<>>,       <<>>,     <<>>),
    Job("cmd",      <<>>,       <<>>,     <<>>),
    Job("cmd",      <<>>,       <<>>,     <<>>),
    Job("cmd",      <<10, 11>>, <<>>,     <<12, 13>>),
    Job("cmd",      <<>>,       <<>>,     <<>>),
    Job("cmd",      <<>>,       <<>>,     <<>>),
    Job("cmd",      <<>>,       <<>>,     <<>>),
    Job("cmd",      <<>>,       <<>>,     <<>>) >>

Jobs == DOMAIN JobTable
\* the top-level jobs: the nodes that are nobody's child
TopJobs ==
    {j \in Jobs : \A q \in Jobs :
        /\ \A i \in DOMAIN JobTable[q].before : JobTable[q].before[i] # j
        /\ \A i \in DOMAIN JobTable[q].kids : JobTable[q].kids[i] # j
        /\ \A i \in DOMAIN JobTable[q].after : JobTable[q].after[i] # j}
\* the name the top-level job is dispatched under
TopName == "a"
\* exit statuses of a command: zero and non-zero
ExitCodes == {0, 1}
NoExit == 0 - 1

\* Longest series or parallel list of a job node read from the file.
MaxChildren == 2
SeqsUpTo(S, n) == UNION {[1..k -> S] : k \in 0..n}

\* a scalar YAML node: the short form of a job, a command line
StrNode(text) ==
    [tag |-> "str", cmd |-> text, series |-> <<>>, parallel |-> <<>>,
     before |-> <<>>, after |-> <<>>]

\* a mapping YAML node with the keys cmd, series, parallel, before and after
MapNode(cmd, series, parallel, before, after) ==
    [tag |-> "map", cmd |-> cmd, series |-> series, parallel |-> parallel,
     before |-> before, after |-> after]

NoNode == [tag |-> "none", cmd |-> "", series |-> <<>>, parallel |-> <<>>,
           before |-> <<>>, after |-> <<>>]

\* the nested job nodes: a command line, a series of one command, and a node
\* that sets both cmd and series
ChildNodes ==
    {StrNode("go"),
     MapNode("", <<StrNode("go")>>, <<>>, <<>>, <<>>),
     MapNode("go", <<StrNode("go")>>, <<>>, <<>>, <<>>)}

\* the before and after lists of the job nodes: no hook or one nested job
HookLists == {<<>>} \cup {<<k>> : k \in ChildNodes}

\* the job nodes a configuration file can hold, lists up to the bound
YamlNodes ==
    {StrNode("")} \cup ChildNodes \cup
    {MapNode(c, s, p, b, a) :
        c \in {"", "go"},
        s \in SeqsUpTo(ChildNodes, MaxChildren), p \in SeqsUpTo(ChildNodes, MaxChildren),
        b \in HookLists, a \in HookLists}

\* the outcome of UnmarshalYAML: the error, or the Job with its fields
ParseError ==
    [err |-> TRUE, Cmd |-> "", Series |-> <<>>, Parallel |-> <<>>,
     Before |-> <<>>, After |-> <<>>]
ParsedJob(cmd, series, parallel, before, after) ==
    [err |-> FALSE, Cmd |-> cmd, Series |-> series, Parallel |-> parallel,
     Before |-> before, After |-> after]

NotLoaded == [state |-> "none", job |-> ParseError]

VARIABLES
    pc,         \* pc[c]: position of dispatch goroutine c
    jobName,    \* jobName[c]: the name goroutine c was triggered with
    existingJob,\* existingJob[c]: id read from jm.running at Register's entry, 0 if !exists
    jobID,      \* jobID[c]: id assigned to c's run by Register, 0 before
    sawWait,    \* sawWait[c]: the calls awaiting another name's teardown when c entered Register
    running,    \* jm.running: job name -> id of its runningJob
    nextID,     \* jm.nextID
    mu,         \* jm.mu: 0 when free, c when held by call c, MainLock when held by StopAll
    cancelled,  \* cancelled[i]: the context of instance i is done
    registry,   \* runningProcesses: job name -> sequence of process handles
    proc,       \* proc[i]: state of the OS process started by instance i
    child,      \* child[i]: state of the process forked by that process (same process group)
    stopper,    \* stopper[c]: the stopCommand goroutine spawned by c's Register
    saPc,       \* position of the goroutine that calls StopAll
    saSnap,     \* ids of the instances StopAll found in jm.running
    saStop,     \* saStop[n]: the stopCommand goroutine StopAll spawned for name n
    root,       \* the job the execution engine was called with under SpecExec, 0 before
    engine,     \* the function the run was started with: Execute, or Job.start under SpecStart
    ectx,       \* the context of that run is done
    npc,        \* npc[j]: position of Execute(ctx, j) for job node j
    nidx,       \* nidx[j]: index of the loop Execute / executeJob is in for node j
    nname,      \* nname[j]: the Name field of node j
    nproc,      \* nproc[j]: state of the OS process started for node j's command
    nexit,      \* nexit[j]: exit status of that process, -1 before it has exited
    yamlNode,   \* the YAML node of a job read from the configuration file, under SpecParse
    loaded,     \* what FromFile made of it: nothing yet, an error, or the Job
    shutdownCtx,\* the context main derives for the watcher is done, under SpecHost
    watcher,    \* startWatch, the goroutine main's WaitGroup counts
    hostPc,     \* position of main
    stopAllCalls\* how many times main has called StopAll

vars == <<pc, jobName, existingJob, jobID, sawWait, running, nextID, mu, cancelled,
          registry, proc, child, stopper, saPc, saSnap, saStop,
          root, engine, ectx, npc, nidx, nname, nproc, nexit, yamlNode, loaded,
          shutdownCtx, watcher, hostPc, stopAllCalls>>

\* the state of the execution engine's run under SpecExec
execVars == <<root, engine, ectx, npc, nidx, nname, nproc, nexit>>
\* the state of the configuration loader under SpecParse
parseVars == <<yamlNode, loaded>>
\* the state of main under SpecHost
hostVars == <<shutdownCtx, watcher, hostPc, stopAllCalls>>
\* the state of the manager, its callers and their processes, without the registry
lifeVars == <<pc, jobName, existingJob, jobID, sawWait, running, nextID, mu, cancelled,
              proc, child, stopper, saPc, saSnap, saStop>>

mgrVars  == <<running, nextID, mu>>
callVars == <<pc, jobName, existingJob, jobID, sawWait>>
osVars   == <<proc, child>>
saVars   == <<saPc, saSnap, saStop>>

MainLock == 0 - 1

NoStopper == [pc |-> "none", cmds |-> <<>>, popped |-> <<>>, failed |-> <<>>]

----------------------------------------------------------------------------
(* Pure helpers                                                            *)

\* delete(m, n) on a Go map modelled as a function with a finite domain
MapDelete(m, n) == [k \in DOMAIN m \ {n} |-> m[k]]

\* m[n] = v
MapPut(m, n, v) == [k \in DOMAIN m \cup {n} |-> IF k = n THEN v ELSE m[k]]

\* index of the first occurrence of h in s, 0 when absent
IndexOf(s, h) ==
    IF \E i \in 1..Len(s) : s[i] = h
    THEN CHOOSE i \in 1..Len(s) : s[i] = h /\ \A k \in 1..(i - 1) : s[k] # h
    ELSE 0

\* slices.Delete(s, i, i+1)
SliceDelete(s, i) == [k \in 1..(Len(s) - 1) |-> IF k < i THEN s[k] ELSE s[k + 1]]

SeqSet(s) == {s[i] : i \in 1..Len(s)}

\* registerProcess: append the handle to the name's list
registerProcess(reg, n, h) ==
    IF n = ""
    THEN reg
    ELSE MapPut(reg, n, IF n \in DOMAIN reg THEN Append(reg[n], h) ELSE <<h>>)

\* a runner that does not unregister its handle
cleanupSkipped(reg, n, h) == reg

\* a cleanup that removes the first handle of the name's list, whichever it is
cleanupFirst(reg, n, h) ==
    IF n # "" /\ n \in DOMAIN reg /\ reg[n] # <<>>
    THEN MapPut(reg, n, Tail(reg[n]))
    ELSE reg

\* cleanupProcess: remove the handle from the name's list, if the list is there
cleanupProcess(reg, n, h) ==
    IF n # "" /\ n \in DOMAIN reg /\ IndexOf(reg[n], h) # 0
    THEN MapPut(reg, n, SliceDelete(reg[n], IndexOf(reg[n], h)))
    ELSE reg

\* a deregister closure that does not compare the instance id
deregisterAnyId(run, n, id) == MapDelete(run, n)

\* a deregister closure that deletes the entry of another instance
deregisterOtherId(run, n, id) ==
    IF n \in DOMAIN run /\ run[n] # id THEN MapDelete(run, n) ELSE run

\* the deregister closure bound to (n, id)
deregister(run, n, id) ==
    IF n \in DOMAIN run /\ run[n] = id THEN MapDelete(run, n) ELSE run

\* the state of a process after SIGKILL was sent to it
Signalled(s) == IF s = "running" THEN "killed" ELSE s

\* killProcess: SIGKILL to the process group -pid; the child of the group
\* leader is a member of the group
killProcessChild(h) == Signalled(child[h])

\* a process is alive until it has terminated
Alive(s) == s \in {"running", "killed"}

HandlesOf(reg) == UNION {SeqSet(reg[n]) : n \in DOMAIN reg}

----------------------------------------------------------------------------
Init ==
    /\ pc = [c \in AllCalls |-> "idle"]
    /\ jobName = [c \in AllCalls |-> NoName]
    /\ existingJob = [c \in AllCalls |-> 0]
    /\ jobID = [c \in AllCalls |-> 0]
    /\ sawWait = [c \in AllCalls |-> {}]
    /\ running = [n \in {} |-> 0]
    /\ nextID = 0
    /\ mu = 0
    /\ cancelled = [i \in Ids |-> FALSE]
    /\ registry = [n \in {} |-> <<>>]
    /\ proc = [i \in Ids |-> "none"]
    /\ child = [i \in Ids |-> "none"]
    /\ stopper = [c \in AllCalls |-> NoStopper]
    /\ saPc = "idle"
    /\ saSnap = {}
    /\ saStop = [n \in Names |-> NoStopper]
    /\ root = 0
    /\ engine = "Execute"
    /\ ectx = FALSE
    /\ npc = [j \in Jobs |-> "idle"]
    /\ nidx = [j \in Jobs |-> 0]
    /\ nname = [j \in Jobs |-> ""]
    /\ nproc = [j \in Jobs |-> "none"]
    /\ nexit = [j \in Jobs |-> NoExit]
    /\ yamlNode = NoNode
    /\ loaded = NotLoaded
    /\ shutdownCtx = FALSE
    /\ watcher = "running"
    /\ hostPc = "ctxwait"
    /\ stopAllCalls = 0

\* Register is waiting on the channel of its stopCommand
InTeardownWait(c) == pc[c] = "wait" /\ stopper[c].pc # "done"

----------------------------------------------------------------------------
(* JobManager.Register, manager.go:29-70                                   *)

\* a Register that keeps the lock while it stops the previous run
muHeldAfterCheck(c, exists) == IF exists THEN c ELSE 0

\* jm.mu after the first critical section of Register: it is unlocked before
\* the previous run is stopped, whether or not there is one
muAfterCheck(c, exists) == 0

\* a Register that does not cancel the previous run
cancelExistingSkipped(c) == cancelled

\* a Register that cancels every context of the manager
cancelEveryContext(c) == [i \in Ids |-> TRUE]

\* existingJob.cancel()
cancelExisting(c) == [cancelled EXCEPT ![existingJob[c]] = TRUE]

\* Register, first critical section: look the name up under the lock
RegisterCheck(c, n) ==
    /\ pc[c] = "idle"
    /\ mu = 0
    /\ jobName' = [jobName EXCEPT ![c] = n]
    /\ existingJob' = [existingJob EXCEPT ![c] = IF n \in DOMAIN running THEN running[n] ELSE 0]
    /\ sawWait' = [sawWait EXCEPT ![c] = {d \in AllCalls : InTeardownWait(d) /\ jobName[d] # n}]
    /\ mu' = muAfterCheck(c, n \in DOMAIN running)
    /\ pc' = [pc EXCEPT ![c] = IF n \in DOMAIN running THEN "cancel" ELSE "store"]
    /\ UNCHANGED <<jobID, running, nextID, cancelled, registry, proc, child, stopper>>
    /\ UNCHANGED saVars
    /\ UNCHANGED <<execVars, parseVars, hostVars>>

\* Register, exists branch: cancel the previous run and call stopCommand, which
\* spawns its goroutine and returns the channel Register then waits on
RegisterCancel(c) ==
    /\ pc[c] = "cancel"
    /\ cancelled' = cancelExisting(c)
    /\ stopper' = [stopper EXCEPT ![c] = [pc |-> "pop", cmds |-> <<>>, popped |-> <<>>, failed |-> <<>>]]
    /\ pc' = [pc EXCEPT ![c] = "wait"]
    /\ UNCHANGED <<jobName, existingJob, jobID, sawWait, running, nextID, mu, registry, proc, child>>
    /\ UNCHANGED saVars
    /\ UNCHANGED <<execVars, parseVars, hostVars>>

\* an id that is not incremented once the counter has left zero
reusedID == IF nextID = 0 THEN nextID + 1 ELSE nextID

\* jm.nextID++; jobID := jm.nextID
newID == nextID + 1

\* Register, second critical section: new context, next id, store, return
RegisterStore(c) ==
    /\ \/ pc[c] = "store"
       \/ pc[c] = "wait" /\ stopper[c].pc = "done"
    /\ mu = 0
    /\ nextID' = newID
    /\ jobID' = [jobID EXCEPT ![c] = newID]
    /\ running' = MapPut(running, jobName[c], newID)
    /\ pc' = [pc EXCEPT ![c] = "exec"]
    /\ UNCHANGED <<jobName, existingJob, sawWait, mu, cancelled, registry, proc, child, stopper>>
    /\ UNCHANGED saVars
    /\ UNCHANGED <<execVars, parseVars, hostVars>>

\* the deregister closure, deferred by the dispatch goroutine
Deregister(c) ==
    /\ pc[c] = "dereg"
    /\ mu = 0
    /\ running' = deregister(running, jobName[c], jobID[c])
    /\ pc' = [pc EXCEPT ![c] = "done"]
    /\ UNCHANGED <<jobName, existingJob, jobID, sawWait, nextID, mu, cancelled, registry, proc,
                   child, stopper>>
    /\ UNCHANGED saVars
    /\ UNCHANGED <<execVars, parseVars, hostVars>>

----------------------------------------------------------------------------
(* stopCommand, executor.go:51-81                                          *)

\* a goroutine that returns without closing its channel when it finds no list
PopStateNoClose(n) ==
    IF n \in DOMAIN registry /\ registry[n] # <<>>
    THEN [pc |-> "kill", cmds |-> registry[n], popped |-> registry[n],
          failed |-> <<>>]
    ELSE [pc |-> "returned", cmds |-> <<>>, popped |-> <<>>, failed |-> <<>>]

\* the goroutine after it took the name's list out of runningProcesses; with
\* no list to take it returns, and the deferred close(stopped) runs
PopState(n) ==
    IF n \in DOMAIN registry /\ registry[n] # <<>>
    THEN [pc |-> "kill", cmds |-> registry[n], popped |-> registry[n],
          failed |-> <<>>]
    ELSE [pc |-> "done", cmds |-> <<>>, popped |-> <<>>, failed |-> <<>>]

\* killProcess(cmd) returns an error: the process has been reaped and no
\* process is left in its group
killError(h) == proc[h] = "reaped" /\ ~Alive(child[h])

\* a kill loop that returns at the first handle whose kill fails
KillStateAbortOnError(st) ==
    IF killError(Head(st.cmds))
    THEN [st EXCEPT !.cmds = <<>>, !.pc = "done",
                    !.failed = Append(st.failed, Head(st.cmds))]
    ELSE [st EXCEPT !.cmds = Tail(st.cmds),
                    !.pc = IF Tail(st.cmds) = <<>> THEN "done" ELSE "kill"]

\* the goroutine after one iteration of its kill loop: an error of killProcess
\* is logged and the loop goes on; the channel is closed when the loop is over
KillState(st) ==
    [st EXCEPT !.cmds = Tail(st.cmds),
               !.pc = IF Tail(st.cmds) = <<>> THEN "done" ELSE "kill",
               !.failed = IF killError(Head(st.cmds))
                          THEN Append(st.failed, Head(st.cmds)) ELSE st.failed]

\* killProcess(cmd): SIGKILL to the group of h; an error (no such group) is logged
KillProc(h) == [proc EXCEPT ![h] = Signalled(proc[h])]
KillChild(h) == [child EXCEPT ![h] = killProcessChild(h)]

\* a pop that reads the name's list and leaves it in runningProcesses
popKeepsList(n) == registry

\* runningProcesses after stopCommand(n) took the list: under processMutex the
\* list is read and the key deleted
popRegistry(n) == MapDelete(registry, n)

StopPop(c) ==
    /\ stopper[c].pc = "pop"
    /\ stopper' = [stopper EXCEPT ![c] = PopState(jobName[c])]
    /\ registry' = popRegistry(jobName[c])
    /\ UNCHANGED <<cancelled, proc, child>>
    /\ UNCHANGED <<mgrVars, callVars, saVars>>
    /\ UNCHANGED <<execVars, parseVars, hostVars>>

StopKill(c) ==
    /\ stopper[c].pc = "kill"
    /\ proc' = KillProc(Head(stopper[c].cmds))
    /\ child' = KillChild(Head(stopper[c].cmds))
    /\ stopper' = [stopper EXCEPT ![c] = KillState(stopper[c])]
    /\ UNCHANGED <<cancelled, registry>>
    /\ UNCHANGED <<mgrVars, callVars, saVars>>
    /\ UNCHANGED <<execVars, parseVars, hostVars>>

----------------------------------------------------------------------------
(* The dispatch goroutine's run: Execute / executeJob / runCommand,        *)
(* executor.go:25-48, 84-124, 138-195                                      *)

\* executeJob: return at once when the context is done, else run the command
ExecuteJob(c) ==
    /\ pc[c] = "exec"
    /\ pc' = [pc EXCEPT ![c] = IF cancelled[jobID[c]] THEN "dereg" ELSE "start"]
    /\ UNCHANGED <<jobName, existingJob, jobID, sawWait, cancelled, registry, proc, child, stopper>>
    /\ UNCHANGED <<mgrVars, saVars>>
    /\ UNCHANGED <<execVars, parseVars, hostVars>>

\* cmd.Start() of a command built by exec.CommandContext: it refuses to start
\* under a done context, and the OS may refuse to spawn the process
CmdStart(c, ok) ==
    /\ pc[c] = "start"
    /\ IF ok /\ ~cancelled[jobID[c]]
       THEN /\ proc' = [proc EXCEPT ![jobID[c]] = "running"]
            /\ pc' = [pc EXCEPT ![c] = "register"]
       ELSE /\ proc' = proc
            /\ pc' = [pc EXCEPT ![c] = "dereg"]
    /\ UNCHANGED <<jobName, existingJob, jobID, sawWait, cancelled, registry, child, stopper>>
    /\ UNCHANGED <<mgrVars, saVars>>
    /\ UNCHANGED <<execVars, parseVars, hostVars>>

\* registerProcess(job.Name, cmd)
RegisterProcess(c) ==
    /\ pc[c] = "register"
    /\ registry' = registerProcess(registry, jobName[c], jobID[c])
    /\ pc' = [pc EXCEPT ![c] = "cmdwait"]
    /\ UNCHANGED <<jobName, existingJob, jobID, sawWait, cancelled, proc, child, stopper>>
    /\ UNCHANGED <<mgrVars, saVars>>
    /\ UNCHANGED <<execVars, parseVars, hostVars>>

\* a wait that lasts until every process of the command's group has terminated
waitForGroup(i) == proc[i] = "exited" /\ ~Alive(child[i])

\* cmd.Wait() can return: the process has terminated.  Wait closes the read
\* ends of the pipes, which ends the two stream goroutines wg.Wait() waits for,
\* whether or not a forked child still holds the write ends
waitReturns(i) == proc[i] = "exited"

\* cmd.Wait() returns once the process has terminated, and reaps it
CmdWait(c) ==
    /\ pc[c] = "cmdwait"
    /\ waitReturns(jobID[c])
    /\ proc' = [proc EXCEPT ![jobID[c]] = "reaped"]
    /\ pc' = [pc EXCEPT ![c] = "cleanup"]
    /\ UNCHANGED <<jobName, existingJob, jobID, sawWait, cancelled, registry, child, stopper>>
    /\ UNCHANGED <<mgrVars, saVars>>
    /\ UNCHANGED <<execVars, parseVars, hostVars>>

\* cleanupProcess(job.Name, cmd), then runCommand and Execute return
CleanupProcess(c) ==
    /\ pc[c] = "cleanup"
    /\ registry' = cleanupProcess(registry, jobName[c], jobID[c])
    /\ pc' = [pc EXCEPT ![c] = "dereg"]
    /\ UNCHANGED <<jobName, existingJob, jobID, sawWait, cancelled, proc, child, stopper>>
    /\ UNCHANGED <<mgrVars, saVars>>
    /\ UNCHANGED <<execVars, parseVars, hostVars>>

----------------------------------------------------------------------------
(* The operating system and the context watcher of exec.CommandContext     *)

\* a process terminates: on its own, or because a SIGKILL reached it
ProcExit(i) ==
    /\ Alive(proc[i])
    /\ proc' = [proc EXCEPT ![i] = "exited"]
    /\ UNCHANGED <<cancelled, registry, child, stopper>>
    /\ UNCHANGED <<mgrVars, callVars, saVars>>
    /\ UNCHANGED <<execVars, parseVars, hostVars>>

\* the command forks a child, which stays in the command's process group
ChildFork(i) ==
    /\ proc[i] = "running"
    /\ child[i] = "none"
    /\ child' = [child EXCEPT ![i] = "running"]
    /\ UNCHANGED <<cancelled, registry, proc, stopper>>
    /\ UNCHANGED <<mgrVars, callVars, saVars>>
    /\ UNCHANGED <<execVars, parseVars, hostVars>>

\* the forked child terminates once a SIGKILL has reached it
ChildExit(i) ==
    /\ child[i] = "killed"
    /\ child' = [child EXCEPT ![i] = "exited"]
    /\ UNCHANGED <<cancelled, registry, proc, stopper>>
    /\ UNCHANGED <<mgrVars, callVars, saVars>>
    /\ UNCHANGED <<execVars, parseVars, hostVars>>

\* the context of a started command is done: os/exec kills the process itself
\* (cmd.Process.Kill), not its group
CtxKill(i) ==
    /\ cancelled[i]
    /\ proc[i] = "running"
    /\ proc' = [proc EXCEPT ![i] = "killed"]
    /\ UNCHANGED <<cancelled, registry, child, stopper>>
    /\ UNCHANGED <<mgrVars, callVars, saVars>>
    /\ UNCHANGED <<execVars, parseVars, hostVars>>

----------------------------------------------------------------------------
(* JobManager.StopAll, manager.go:73-87                                    *)

RunningIds == {running[n] : n \in DOMAIN running}

\* a StopAll that cancels nothing
cancelNone == cancelled

\* job.cancel() for every entry of jm.running
cancelAll == [i \in Ids |-> cancelled[i] \/ i \in RunningIds]

\* a StopAll that calls stopCommand for every name of the configuration
stopEveryName == Names

\* the names StopAll calls stopCommand for: the keys of jm.running
stopTargets == DOMAIN running

\* StopAll takes the lock, cancels every running job and calls stopCommand for
\* every name
StopAllLocked ==
    /\ saPc = "idle"
    /\ mu = 0
    /\ mu' = MainLock
    /\ saSnap' = RunningIds
    /\ cancelled' = cancelAll
    /\ saStop' = [n \in Names |-> IF n \in stopTargets
                                  THEN [pc |-> "pop", cmds |-> <<>>, popped |-> <<>>, failed |-> <<>>]
                                  ELSE NoStopper]
    /\ saPc' = "wait"
    /\ UNCHANGED <<running, nextID, registry, proc, child, stopper>>
    /\ UNCHANGED callVars
    /\ UNCHANGED <<execVars, parseVars>>

\* StopAll called at any moment of the program
StopAllBegin == StopAllLocked /\ UNCHANGED hostVars

SaStopPop(n) ==
    /\ saStop[n].pc = "pop"
    /\ saStop' = [saStop EXCEPT ![n] = PopState(n)]
    /\ registry' = popRegistry(n)
    /\ UNCHANGED <<cancelled, proc, child, stopper, saPc, saSnap>>
    /\ UNCHANGED <<mgrVars, callVars>>
    /\ UNCHANGED <<execVars, parseVars, hostVars>>

SaStopKill(n) ==
    /\ saStop[n].pc = "kill"
    /\ proc' = KillProc(Head(saStop[n].cmds))
    /\ child' = KillChild(Head(saStop[n].cmds))
    /\ saStop' = [saStop EXCEPT ![n] = KillState(saStop[n])]
    /\ UNCHANGED <<cancelled, registry, stopper, saPc, saSnap>>
    /\ UNCHANGED <<mgrVars, callVars>>
    /\ UNCHANGED <<execVars, parseVars, hostVars>>

\* every channel has been received from: the deferred Unlock runs, StopAll returns
StopAllReturn ==
    /\ saPc = "wait"
    /\ \A n \in Names : saStop[n].pc \in {"none", "done"}
    /\ mu' = 0
    /\ saPc' = "done"
    /\ UNCHANGED <<running, nextID, cancelled, registry, proc, child, stopper, saSnap, saStop>>
    /\ UNCHANGED callVars
    /\ UNCHANGED <<execVars, parseVars, hostVars>>

----------------------------------------------------------------------------
(* The execution engine: Execute, executeJob, runCommand, executor.go      *)
(* One run of one top-level job; npc[j] is the position of Execute(ctx, j):*)
(*   idle     Execute has not been called on j                             *)
(*   before   at the head of the before loop, nidx[j] the next hook        *)
(*   bwait    inside Execute(ctx, beforeJob)                               *)
(*   main     at the entry of executeJob                                   *)
(*   start    runCommand, before cmd.Start                                 *)
(*   register runCommand, before registerProcess                           *)
(*   cmdwait  runCommand, in cmd.Wait                                      *)
(*   cleanup  runCommand, before cleanupProcess                            *)
(*   series   at the head of the series loop, nidx[j] the next child       *)
(*   swait    inside Execute(ctx, *seriesJob)                              *)
(*   pwait    in wg.Wait                                                   *)
(*   after    at the head of the after loop, nidx[j] the next hook         *)
(*   await    inside Execute(ctx, afterJob)                                *)
(*   ret      Execute has returned                                         *)

\* node j is entered through Job.run: Job.run calls run, not start, on the
\* children of a series and on the branches of a parallel node, jobs.go:115-141
runOnly(j) == engine = "start" /\ \E p \in Jobs : j \in SeqSet(JobTable[p].kids)

\* the hook lists the call on node j goes through, and its children
Before(j) == IF runOnly(j) THEN <<>> ELSE JobTable[j].before
Kids(j) == JobTable[j].kids
After(j) == IF runOnly(j) THEN <<>> ELSE JobTable[j].after

\* Execute(ctx, k) is called: k's goroutine stands at the head of its before loop
Called(p, k) == [p EXCEPT ![k] = "before"]

\* the dispatch goroutine sets the job's Name and calls Execute, watch.go:1053-1060
Dispatch(r) ==
    /\ root = 0
    /\ root' = r
    /\ nname' = [nname EXCEPT ![r] = TopName]
    /\ npc' = Called(npc, r)
    /\ nidx' = [nidx EXCEPT ![r] = 1]
    /\ UNCHANGED <<engine, ectx, nproc, nexit, registry>>
    /\ UNCHANGED <<lifeVars, parseVars, hostVars>>

\* the dispatch goroutine of the Manager sets the job's Name and calls
\* j.start(ctx), watch.go:239-246
DispatchStart(r) ==
    /\ root = 0
    /\ root' = r
    /\ engine' = "start"
    /\ nname' = [nname EXCEPT ![r] = TopName]
    /\ npc' = Called(npc, r)
    /\ nidx' = [nidx EXCEPT ![r] = 1]
    /\ UNCHANGED <<ectx, nproc, nexit, registry>>
    /\ UNCHANGED <<lifeVars, parseVars, hostVars>>

\* the run's context is cancelled: by a Register that supersedes it or by StopAll
CancelRun ==
    /\ root # 0
    /\ ~ectx
    /\ ectx' = TRUE
    /\ UNCHANGED <<root, engine, npc, nidx, nname, nproc, nexit, registry>>
    /\ UNCHANGED <<lifeVars, parseVars, hostVars>>

\* a parallel node whose branches run under a context of their own, which the
\* cancellation of the run does not reach
branchCtxDetached(j) ==
    IF \E p \in Jobs : JobTable[p].kind = "parallel" /\ j \in SeqSet(Kids(p))
    THEN FALSE
    ELSE ectx

\* the context Execute was called with for node j is done: a hook and a series
\* child get the context of their caller, a parallel branch one derived from it
\* with context.WithValue, so each of them is done when the run's context is
ctxDone(j) == ectx

\* a before loop that does not look at the context
beforeCtxIgnored(j) == FALSE

\* select on ctx.Done() at the head of the before loop
beforeCtxDone(j) == ctxDone(j)

\* one iteration of the before loop, or its end and the call of executeJob
ExecuteBefore(j) ==
    /\ npc[j] = "before"
    /\ IF nidx[j] > Len(Before(j))
       THEN /\ npc' = [npc EXCEPT ![j] = "main"]
            /\ UNCHANGED nidx
       ELSE IF beforeCtxDone(j)
       THEN /\ npc' = [npc EXCEPT ![j] = "ret"]
            /\ UNCHANGED nidx
       ELSE /\ npc' = [Called(npc, Before(j)[nidx[j]]) EXCEPT ![j] = "bwait"]
            /\ nidx' = [nidx EXCEPT ![Before(j)[nidx[j]]] = 1]
    /\ UNCHANGED <<root, engine, ectx, nname, nproc, nexit, registry>>
    /\ UNCHANGED <<lifeVars, parseVars, hostVars>>

\* a caller that goes on without its hook's Execute having returned
hookNotAwaited(k) == TRUE

\* the call Execute(ctx, hook) is synchronous: the caller goes on when it returns
hookReturned(k) == npc[k] = "ret"

\* Execute(ctx, beforeJob) returns
ExecuteBeforeReturn(j) ==
    /\ npc[j] = "bwait"
    /\ hookReturned(Before(j)[nidx[j]])
    /\ npc' = [npc EXCEPT ![j] = "before"]
    /\ nidx' = [nidx EXCEPT ![j] = nidx[j] + 1]
    /\ UNCHANGED <<root, engine, ectx, nname, nproc, nexit, registry>>
    /\ UNCHANGED <<lifeVars, parseVars, hostVars>>

\* a parallel node that starts only its first branch
spawnFirstBranch(j) == {Kids(j)[1]}

\* the branches a parallel node starts a goroutine for: every one of them
spawnBranches(j) == SeqSet(Kids(j))

\* executeJob: the context check, then the dispatch on the kind of the job;
\* a parallel node copies its Name into every branch and starts them all
ExecuteMain(j) ==
    /\ npc[j] = "main"
    /\ IF ctxDone(j)
       THEN /\ npc' = [npc EXCEPT ![j] = "after"]
            /\ nidx' = [nidx EXCEPT ![j] = 1]
            /\ UNCHANGED nname
       ELSE IF JobTable[j].kind = "cmd"
       THEN /\ npc' = [npc EXCEPT ![j] = "start"]
            /\ UNCHANGED <<nidx, nname>>
       ELSE IF JobTable[j].kind = "series"
       THEN /\ npc' = [npc EXCEPT ![j] = "series"]
            /\ nidx' = [nidx EXCEPT ![j] = 1]
            /\ UNCHANGED nname
       ELSE /\ npc' = [k \in Jobs |-> IF k = j THEN "pwait"
                                      ELSE IF k \in spawnBranches(j) THEN "before"
                                      ELSE npc[k]]
            /\ nidx' = [k \in Jobs |-> IF k \in spawnBranches(j) THEN 1 ELSE nidx[k]]
            /\ nname' = [k \in Jobs |-> IF k \in SeqSet(Kids(j)) THEN nname[j] ELSE nname[k]]
    /\ UNCHANGED <<root, engine, ectx, nproc, nexit, registry>>
    /\ UNCHANGED <<lifeVars, parseVars, hostVars>>

\* a series loop that stops at the first child whose command exited non-zero
seriesHaltsOnFailure(k) == nexit[k] > 0

\* the series loop has no break: no outcome of child k ends it early
seriesHalts(k) == FALSE

\* one iteration of the series loop: copy the Name into the child and call
\* Execute on it (no context check here), or the end of the loop
SeriesNext(j) ==
    /\ npc[j] = "series"
    /\ IF nidx[j] > Len(Kids(j)) \/ (nidx[j] > 1 /\ seriesHalts(Kids(j)[nidx[j] - 1]))
       THEN /\ npc' = [npc EXCEPT ![j] = "after"]
            /\ nidx' = [nidx EXCEPT ![j] = 1]
            /\ UNCHANGED nname
       ELSE /\ nname' = [nname EXCEPT ![Kids(j)[nidx[j]]] = nname[j]]
            /\ npc' = [Called(npc, Kids(j)[nidx[j]]) EXCEPT ![j] = "swait"]
            /\ nidx' = [nidx EXCEPT ![Kids(j)[nidx[j]]] = 1]
    /\ UNCHANGED <<root, engine, ectx, nproc, nexit, registry>>
    /\ UNCHANGED <<lifeVars, parseVars, hostVars>>

\* a series loop that goes on without its child's Execute having returned
seriesChildNotAwaited(k) == TRUE

\* the call Execute(ctx, *seriesJob) is synchronous
seriesChildReturned(k) == npc[k] = "ret"

\* Execute(ctx, *seriesJob) returns
SeriesReturn(j) ==
    /\ npc[j] = "swait"
    /\ seriesChildReturned(Kids(j)[nidx[j]])
    /\ npc' = [npc EXCEPT ![j] = "series"]
    /\ nidx' = [nidx EXCEPT ![j] = nidx[j] + 1]
    /\ UNCHANGED <<root, engine, ectx, nname, nproc, nexit, registry>>
    /\ UNCHANGED <<lifeVars, parseVars, hostVars>>

\* a join that is satisfied by the first branch to return
anyBranchReturned(j) == \E k \in SeqSet(Kids(j)) : npc[k] = "ret"

\* wg.Wait: every branch goroutine has called wg.Done
branchesReturned(j) == \A k \in SeqSet(Kids(j)) : npc[k] = "ret"

\* wg.Wait returns and executeJob with it
ParallelJoin(j) ==
    /\ npc[j] = "pwait"
    /\ branchesReturned(j)
    /\ npc' = [npc EXCEPT ![j] = "after"]
    /\ nidx' = [nidx EXCEPT ![j] = 1]
    /\ UNCHANGED <<root, engine, ectx, nname, nproc, nexit, registry>>
    /\ UNCHANGED <<lifeVars, parseVars, hostVars>>

\* a Start that does not look at the context
startIgnoresCtx(j, ok) == ok

\* cmd.Start of a command made by exec.CommandContext: it starts the process
\* when the binary can be started (ok) and the context is not done
startAllowed(j, ok) == ok /\ ~ctxDone(j)

\* a runner that goes on to registerProcess after a failed start
registerAfterFailedStart == "register"

\* a failed start that makes Execute return, past the after hooks of the node
returnAfterFailedStart == "ret"

\* where runCommand is after cmd.Start returned an error: it has returned
afterFailedStart == "after"

\* runCommand up to cmd.Start; on an error runCommand returns
RunStart(j, ok) ==
    /\ npc[j] = "start"
    /\ IF startAllowed(j, ok)
       THEN /\ nproc' = [nproc EXCEPT ![j] = "running"]
            /\ npc' = [npc EXCEPT ![j] = "register"]
            /\ UNCHANGED nidx
       ELSE /\ nproc' = [nproc EXCEPT ![j] = "failed"]
            /\ npc' = [npc EXCEPT ![j] = afterFailedStart]
            /\ nidx' = [nidx EXCEPT ![j] = 1]
    /\ UNCHANGED <<root, engine, ectx, nname, nexit, registry>>
    /\ UNCHANGED <<lifeVars, parseVars, hostVars>>

\* registerProcess(job.Name, cmd)
RunRegister(j) ==
    /\ npc[j] = "register"
    /\ registry' = registerProcess(registry, nname[j], j)
    /\ npc' = [npc EXCEPT ![j] = "cmdwait"]
    /\ UNCHANGED <<root, engine, ectx, nidx, nname, nproc, nexit>>
    /\ UNCHANGED <<lifeVars, parseVars, hostVars>>

\* cmd.Wait returns once the process has terminated, whatever its status
RunWait(j) ==
    /\ npc[j] = "cmdwait"
    /\ nproc[j] = "exited"
    /\ nproc' = [nproc EXCEPT ![j] = "reaped"]
    /\ npc' = [npc EXCEPT ![j] = "cleanup"]
    /\ UNCHANGED <<root, engine, ectx, nidx, nname, nexit, registry>>
    /\ UNCHANGED <<lifeVars, parseVars, hostVars>>

\* cleanupProcess(job.Name, cmd), then runCommand and executeJob return
RunCleanup(j) ==
    /\ npc[j] = "cleanup"
    /\ registry' = cleanupProcess(registry, nname[j], j)
    /\ npc' = [npc EXCEPT ![j] = "after"]
    /\ nidx' = [nidx EXCEPT ![j] = 1]
    /\ UNCHANGED <<root, engine, ectx, nname, nproc, nexit>>
    /\ UNCHANGED <<lifeVars, parseVars, hostVars>>

\* one iteration of the after loop, or the return of Execute
ExecuteAfter(j) ==
    /\ npc[j] = "after"
    /\ IF nidx[j] > Len(After(j)) \/ ctxDone(j)
       THEN /\ npc' = [npc EXCEPT ![j] = "ret"]
            /\ UNCHANGED nidx
       ELSE /\ npc' = [Called(npc, After(j)[nidx[j]]) EXCEPT ![j] = "await"]
            /\ nidx' = [nidx EXCEPT ![After(j)[nidx[j]]] = 1]
    /\ UNCHANGED <<root, engine, ectx, nname, nproc, nexit, registry>>
    /\ UNCHANGED <<lifeVars, parseVars, hostVars>>

\* Execute(ctx, afterJob) returns
ExecuteAfterReturn(j) ==
    /\ npc[j] = "await"
    /\ hookReturned(After(j)[nidx[j]])
    /\ npc' = [npc EXCEPT ![j] = "after"]
    /\ nidx' = [nidx EXCEPT ![j] = nidx[j] + 1]
    /\ UNCHANGED <<root, engine, ectx, nname, nproc, nexit, registry>>
    /\ UNCHANGED <<lifeVars, parseVars, hostVars>>

\* the command's process terminates: with any status on its own, with a
\* non-zero one when it was killed
CmdExit(j, st) ==
    /\ Alive(nproc[j])
    /\ nproc[j] = "killed" => st > 0
    /\ nproc' = [nproc EXCEPT ![j] = "exited"]
    /\ nexit' = [nexit EXCEPT ![j] = st]
    /\ UNCHANGED <<root, engine, ectx, npc, nidx, nname, registry>>
    /\ UNCHANGED <<lifeVars, parseVars, hostVars>>

\* exec.CommandContext kills the process when the context is done
CmdCtxKill(j) ==
    /\ ctxDone(j)
    /\ nproc[j] = "running"
    /\ nproc' = [nproc EXCEPT ![j] = "killed"]
    /\ UNCHANGED <<root, engine, ectx, npc, nidx, nname, nexit, registry>>
    /\ UNCHANGED <<lifeVars, parseVars, hostVars>>

\* the stopCommand that follows the cancellation: it takes the name's list out
\* of the registry and sends the kill to every process of it
StopRun ==
    /\ ectx
    /\ TopName \in DOMAIN registry
    /\ registry' = MapDelete(registry, TopName)
    /\ nproc' = [j \in Jobs |-> IF j \in SeqSet(registry[TopName])
                                THEN Signalled(nproc[j]) ELSE nproc[j]]
    /\ UNCHANGED <<root, engine, ectx, npc, nidx, nname, nexit>>
    /\ UNCHANGED <<lifeVars, parseVars, hostVars>>

----------------------------------------------------------------------------
(* The configuration loader: FromFile and Job.UnmarshalYAML, job.go        *)

\* a validation that lets two action kinds pass
tooManyTypesLax(types) == types > 2

\* the validation of UnmarshalYAML: more than one of cmd, series, parallel
tooManyTypes(types) == types > 1

AnyError(jobs) == \E i \in DOMAIN jobs : jobs[i].err

\* Job.UnmarshalYAML: a scalar is a command line; a mapping is decoded field
\* by field, every nested job by this same function, an error of a nested job
\* fails the decoding; then the action kinds that are set are counted
RECURSIVE UnmarshalYAML(_)
UnmarshalYAML(node) ==
    IF node.tag = "str"
    THEN ParsedJob(node.cmd, <<>>, <<>>, <<>>, <<>>)
    ELSE LET series == [i \in DOMAIN node.series |-> UnmarshalYAML(node.series[i])]
             parallel == [i \in DOMAIN node.parallel |-> UnmarshalYAML(node.parallel[i])]
             before == [i \in DOMAIN node.before |-> UnmarshalYAML(node.before[i])]
             after == [i \in DOMAIN node.after |-> UnmarshalYAML(node.after[i])]
             types == (IF node.cmd # "" THEN 1 ELSE 0)
                      + (IF Len(series) > 0 THEN 1 ELSE 0)
                      + (IF Len(parallel) > 0 THEN 1 ELSE 0)
         IN  IF AnyError(series) \/ AnyError(parallel) \/ AnyError(before) \/ AnyError(after)
             THEN ParseError
             ELSE IF tooManyTypes(types)
             THEN ParseError
             ELSE ParsedJob(node.cmd, series, parallel, before, after)

\* os.ReadFile: the file holds one of the job nodes
ReadFile(node) ==
    /\ yamlNode = NoNode
    /\ yamlNode' = node
    /\ UNCHANGED loaded
    /\ UNCHANGED <<lifeVars, execVars, registry, hostVars>>

\* FromFile: yaml.Unmarshal, whose error is returned instead of a Vai
FromFile ==
    /\ yamlNode # NoNode
    /\ loaded = NotLoaded
    /\ loaded' = IF UnmarshalYAML(yamlNode).err
                 THEN [state |-> "error", job |-> ParseError]
                 ELSE [state |-> "ok", job |-> UnmarshalYAML(yamlNode)]
    /\ UNCHANGED yamlNode
    /\ UNCHANGED <<lifeVars, execVars, registry, hostVars>>

----------------------------------------------------------------------------
(* main, main.go:158-185 (with the Manager, main.go:516-546)               *)

\* the goroutine that waits for a signal receives it and calls cancel
Signal ==
    /\ ~shutdownCtx
    /\ shutdownCtx' = TRUE
    /\ UNCHANGED <<watcher, hostPc, stopAllCalls>>
    /\ UNCHANGED <<lifeVars, registry, execVars, parseVars>>

\* startWatch returns: when the watch on its context ends, or before that when
\* it has no path to watch or cannot create the watcher
WatcherReturn ==
    /\ watcher = "running"
    /\ watcher' = "finished"
    /\ UNCHANGED <<shutdownCtx, hostPc, stopAllCalls>>
    /\ UNCHANGED <<lifeVars, registry, execVars, parseVars>>

\* <-ctx.Done()
HostCtxDone ==
    /\ hostPc = "ctxwait"
    /\ shutdownCtx
    /\ hostPc' = "wgwait"
    /\ UNCHANGED <<shutdownCtx, watcher, stopAllCalls>>
    /\ UNCHANGED <<lifeVars, registry, execVars, parseVars>>

\* a main that goes on to StopAll without waiting for the watcher
watcherNotAwaited == TRUE

\* wg.Wait() returns: startWatch has returned
watcherAwaited == watcher = "finished"

HostWgWait ==
    /\ hostPc = "wgwait"
    /\ watcherAwaited
    /\ hostPc' = "stopall"
    /\ UNCHANGED <<shutdownCtx, watcher, stopAllCalls>>
    /\ UNCHANGED <<lifeVars, registry, execVars, parseVars>>

\* v.jobManager.StopAll(): main is inside the call once the lock is taken
HostStopAll ==
    /\ hostPc = "stopall"
    /\ StopAllLocked
    /\ hostPc' = "instopall"
    /\ stopAllCalls' = stopAllCalls + 1
    /\ UNCHANGED <<shutdownCtx, watcher>>

\* StopAll has returned; main saves the configuration if asked to and returns
HostExit ==
    /\ hostPc = "instopall"
    /\ saPc = "done"
    /\ hostPc' = "exited"
    /\ UNCHANGED <<shutdownCtx, watcher, stopAllCalls>>
    /\ UNCHANGED <<lifeVars, registry, execVars, parseVars>>

----------------------------------------------------------------------------
Next ==
    \/ \E c \in Calls, n \in Names : RegisterCheck(c, n)
    \/ \E c \in Calls : RegisterCancel(c)
    \/ \E c \in Calls : RegisterStore(c)
    \/ \E c \in Calls : StopPop(c)
    \/ \E c \in Calls : StopKill(c)
    \/ \E c \in Calls : ExecuteJob(c)
    \/ \E c \in Calls, ok \in BOOLEAN : CmdStart(c, ok)
    \/ \E c \in Calls : RegisterProcess(c)
    \/ \E c \in Calls : CmdWait(c)
    \/ \E c \in Calls : CleanupProcess(c)
    \/ \E c \in Calls : Deregister(c)
    \/ \E i \in Calls : ProcExit(i)
    \/ \E i \in Calls : ChildFork(i)
    \/ \E i \in Calls : ChildExit(i)
    \/ \E i \in Calls : CtxKill(i)
    \/ StopAllBegin
    \/ \E n \in Names : SaStopPop(n)
    \/ \E n \in Names : SaStopKill(n)
    \/ StopAllReturn

Spec == Init /\ [][Next]_vars

\* The manager and the runner alone, with one more trigger: the commands fork
\* no child and the program is not shut down.  The goroutines are
\* interchangeable, so they enter Register in the order of their numbers.
NextReg ==
    \/ \E c \in RegCalls, n \in Names :
          /\ \A d \in RegCalls : d < c => pc[d] # "idle"
          /\ RegisterCheck(c, n)
    \/ \E c \in RegCalls : RegisterCancel(c)
    \/ \E c \in RegCalls : RegisterStore(c)
    \/ \E c \in RegCalls : StopPop(c)
    \/ \E c \in RegCalls : StopKill(c)
    \/ \E c \in RegCalls : ExecuteJob(c)
    \/ \E c \in RegCalls, ok \in BOOLEAN : CmdStart(c, ok)
    \/ \E c \in RegCalls : RegisterProcess(c)
    \/ \E c \in RegCalls : CmdWait(c)
    \/ \E c \in RegCalls : CleanupProcess(c)
    \/ \E c \in RegCalls : Deregister(c)
    \/ \E i \in RegCalls : ProcExit(i)
    \/ \E i \in RegCalls : CtxKill(i)

\* a process that was sent a SIGKILL terminates
KilledExit(i) == proc[i] = "killed" /\ ProcExit(i)

\* the steps the Go scheduler and the OS take whenever they can: those of a
\* goroutine inside Register, stopCommand, the runner, deregister or StopAll,
\* the kill os/exec sends when the context of a started command is done, and
\* the exit of a killed process.  A trigger, a call of StopAll, the exit of a
\* process nobody killed and what a forked child does are left to happen or not.
Progress ==
    \/ \E c \in Calls : RegisterCancel(c)
    \/ \E c \in Calls : RegisterStore(c)
    \/ \E c \in Calls : StopPop(c)
    \/ \E c \in Calls : StopKill(c)
    \/ \E c \in Calls : ExecuteJob(c)
    \/ \E c \in Calls, ok \in BOOLEAN : CmdStart(c, ok)
    \/ \E c \in Calls : RegisterProcess(c)
    \/ \E c \in Calls : CmdWait(c)
    \/ \E c \in Calls : CleanupProcess(c)
    \/ \E c \in Calls : Deregister(c)
    \/ \E i \in Calls : CtxKill(i)
    \/ \E i \in Calls : KilledExit(i)
    \/ \E n \in Names : SaStopPop(n)
    \/ \E n \in Names : SaStopKill(n)
    \/ StopAllReturn

\* Spec with the scheduling of the goroutines: no goroutine that can take a
\* step is left waiting forever
SpecLive == Init /\ [][Next]_vars /\ WF_vars(Progress)

SpecReg == Init /\ [][NextReg]_vars

\* One run of the execution engine on one of the top-level jobs of JobTable,
\* with the cancellation of its context and the stopCommand that follows it.
NextExec ==
    \/ \E r \in TopJobs : Dispatch(r)
    \/ CancelRun
    \/ StopRun
    \/ \E j \in Jobs :
        \/ ExecuteBefore(j)
        \/ ExecuteBeforeReturn(j)
        \/ ExecuteMain(j)
        \/ SeriesNext(j)
        \/ SeriesReturn(j)
        \/ ParallelJoin(j)
        \/ \E ok \in BOOLEAN : RunStart(j, ok)
        \/ RunRegister(j)
        \/ RunWait(j)
        \/ RunCleanup(j)
        \/ ExecuteAfter(j)
        \/ ExecuteAfterReturn(j)
        \/ \E st \in ExitCodes : CmdExit(j, st)
        \/ CmdCtxKill(j)

SpecExec == Init /\ [][NextExec]_vars

\* One run of the engine of jobs.go, Job.start, on one of the top-level jobs of
\* JobTable.
NextStart ==
    \/ \E r \in TopJobs : DispatchStart(r)
    \/ CancelRun
    \/ StopRun
    \/ \E j \in Jobs :
        \/ ExecuteBefore(j)
        \/ ExecuteBeforeReturn(j)
        \/ ExecuteMain(j)
        \/ SeriesNext(j)
        \/ SeriesReturn(j)
        \/ ParallelJoin(j)
        \/ \E ok \in BOOLEAN : RunStart(j, ok)
        \/ RunRegister(j)
        \/ RunWait(j)
        \/ RunCleanup(j)
        \/ ExecuteAfter(j)
        \/ ExecuteAfterReturn(j)
        \/ \E st \in ExitCodes : CmdExit(j, st)
        \/ CmdCtxKill(j)

SpecStart == Init /\ [][NextStart]_vars

\* The program from the start of its watcher to its exit: the dispatch
\* goroutines the watcher has spawned call Register whenever they are scheduled,
\* and StopAll is called by main alone.
NextHost ==
    \/ Signal
    \/ WatcherReturn
    \/ HostCtxDone
    \/ HostWgWait
    \/ HostStopAll
    \/ HostExit
    \/ \E c \in Calls, n \in Names : RegisterCheck(c, n)
    \/ \E c \in Calls : RegisterCancel(c)
    \/ \E c \in Calls : RegisterStore(c)
    \/ \E c \in Calls : StopPop(c)
    \/ \E c \in Calls : StopKill(c)
    \/ \E c \in Calls : ExecuteJob(c)
    \/ \E c \in Calls, ok \in BOOLEAN : CmdStart(c, ok)
    \/ \E c \in Calls : RegisterProcess(c)
    \/ \E c \in Calls : CmdWait(c)
    \/ \E c \in Calls : CleanupProcess(c)
    \/ \E c \in Calls : Deregister(c)
    \/ \E i \in Calls : ProcExit(i)
    \/ \E i \in Calls : CtxKill(i)
    \/ \E n \in Names : SaStopPop(n)
    \/ \E n \in Names : SaStopKill(n)
    \/ StopAllReturn

SpecHost == Init /\ [][NextHost]_vars

\* The loading of one job node from the configuration file.
NextParse ==
    \/ /\ yamlNode = NoNode
       /\ \E node \in YamlNodes : ReadFile(node)
    \/ FromFile

SpecParse == Init /\ [][NextParse]_vars

----------------------------------------------------------------------------
(* Properties                                                              *)

\* Register has returned to goroutine c
Returned(c) == pc[c] \in {"exec", "start", "register", "cmdwait", "cleanup", "dereg", "done"}

\* c's call of Register found an entry for its name
Reregistered(c) == existingJob[c] # 0

\* the step in which Register returns to a goroutine that found an entry
ReturnsReregistered(c) == pc[c] = "wait" /\ pc'[c] = "exec"

\* the handles a stopCommand goroutine took out of the registry, once its
\* channel is closed
DoneStoppers ==
    {stopper[c] : c \in {d \in AllCalls : stopper[d].pc = "done"}}
        \cup {saStop[n] : n \in {m \in Names : saStop[m].pc = "done"}}

\* C1: when two Register calls for one name have both returned and neither
\* run has deregistered yet, the map holds one instance for the name, the one
\* stored last, and the context returned by the first call (the lower id) is
\* cancelled.
C1_AtMostOnePerName ==
    \A c1, c2 \in AllCalls :
        (/\ Returned(c1) /\ pc[c1] # "done"
         /\ Returned(c2) /\ pc[c2] # "done"
         /\ jobName[c1] = jobName[c2]
         /\ jobID[c1] < jobID[c2])
        => /\ jobName[c1] \in DOMAIN running
           /\ running[jobName[c1]] >= jobID[c2]
           /\ cancelled[jobID[c1]]

\* C2: when Register returns to a call that found an entry for its name, the
\* context of that entry is cancelled and the returned context is not.
C2_DuplicateCancelsPrevious ==
    [][\A c \in AllCalls :
          ReturnsReregistered(c)
          => /\ cancelled'[existingJob[c]]
             /\ ~cancelled'[jobID'[c]]]_vars

C2_Witness ==
    \E c \in AllCalls :
        /\ pc[c] = "exec"
        /\ Reregistered(c)
        /\ cancelled[existingJob[c]]
        /\ ~cancelled[jobID[c]]

\* C3: a deregister closure called while the map holds a newer instance for
\* its name leaves that instance in the map.
C3_StaleDeregister ==
    [][\A c \in AllCalls :
          (/\ pc[c] = "dereg" /\ pc'[c] = "done"
           /\ jobName[c] \in DOMAIN running
           /\ running[jobName[c]] > jobID[c])
          => /\ jobName[c] \in DOMAIN running'
             /\ running'[jobName[c]] = running[jobName[c]]]_vars

C3_Witness ==
    \E c \in AllCalls :
        /\ pc[c] = "done"
        /\ jobName[c] \in DOMAIN running
        /\ running[jobName[c]] > jobID[c]

\* C4: no process of a superseded run instance is alive while the superseding
\* instance of the same name has a process running.
C4_OneActivePerName ==
    \A c1, c2 \in AllCalls :
        (/\ Returned(c1) /\ Returned(c2)
         /\ jobName[c1] = jobName[c2]
         /\ jobID[c1] < jobID[c2])
        => ~(Alive(proc[jobID[c1]]) /\ Alive(proc[jobID[c2]]))

\* C5: when Register returns for a re-registered name, the registry holds no
\* handle of a process started by the previous run instance.
C5_TeardownBeforeReadmission ==
    [][\A c \in AllCalls :
          ReturnsReregistered(c) => existingJob[c] \notin HandlesOf(registry')]_vars

\* C6: the channel of stopCommand is closed only when every handle it took out
\* of the registry has been reaped.
C6_SignalAfterReaped ==
    \A st \in DoneStoppers : \A h \in SeqSet(st.popped) : proc[h] = "reaped"

\* C7: after StopAll has returned, the context of every instance it found in
\* the map is cancelled.
C7_StopAllCancels ==
    saPc = "done" => \A i \in saSnap : cancelled[i]

C7_Witness ==
    /\ saPc = "done"
    /\ Cardinality(saSnap) = 2
    /\ \A i \in saSnap : cancelled[i]

\* C8: when StopAll has returned, no process started by a run that was in the
\* map when StopAll was called is alive.
C8_StopAllLeavesNoProcess ==
    saPc = "done" => \A i \in saSnap : ~Alive(proc[i])

\* C9: once stopCommand has completed, no process forked by a process whose
\* handle it took out of the registry is alive.
C9_GroupKill ==
    \A st \in DoneStoppers : \A h \in SeqSet(st.popped) : ~Alive(child[h])

\* C10: while a Register call waits for the teardown of its name, it does not
\* hold the manager lock, and every step of a Register call for another name
\* is enabled.
C10_RegisterUnblocked ==
    \A c, d \in AllCalls :
        (InTeardownWait(c) /\ d # c)
        => /\ mu # c
           /\ \A n \in Names \ {jobName[c]} :
                 /\ pc[d] = "idle" => ENABLED RegisterCheck(d, n)
                 /\ (pc[d] = "store" /\ jobName[d] = n) => ENABLED RegisterStore(d)
                 /\ (pc[d] = "wait" /\ stopper[d].pc = "done" /\ jobName[d] = n)
                        => ENABLED RegisterStore(d)

C10_Witness ==
    \E d \in AllCalls : \E c \in sawWait[d] :
        /\ InTeardownWait(c)
        /\ pc[d] = "exec"
        /\ jobName[d] # jobName[c]

\* C11: once every goroutine that called Register for a name has called its
\* deregister function, the running map has no entry for that name, however
\* the calls were interleaved.
C11_MapEmptyAfterAll ==
    \A n \in Names :
        (\A c \in AllCalls : jobName[c] = n => pc[c] = "done") => n \notin DOMAIN running

C11_Witness ==
    /\ \A c \in RegCalls : pc[c] = "done" /\ jobName[c] = "a"
    /\ \E c1, c2 \in RegCalls : c1 # c2 /\ existingJob[c1] = 0 /\ existingJob[c2] = 0
    /\ \E c \in RegCalls : existingJob[c] # 0
    /\ DOMAIN running = {}

----------------------------------------------------------------------------
(* Properties of the execution engine                                      *)

\* Execute has been called on node k
Entered(k) == npc[k] # "idle"

\* executeJob has returned for node j, or was never reached
PastMain(j) == npc[j] \in {"after", "await", "ret"}

\* cmd.Start has been called for node k's command
StartCalled(k) == nproc[k] # "none"

SeriesJobs == {j \in Jobs : JobTable[j].kind = "series"}
ParallelJobs == {j \in Jobs : JobTable[j].kind = "parallel"}

C13_SecondOnlyUponSuccess ==
    \A j \in SeriesJobs : \A i \in 2..Len(Kids(j)) :
        nproc[Kids(j)[i]] \in {"running", "killed", "exited", "reaped"} =>
            nexit[Kids(j)[i - 1]] = 0

\* C14: the children of a series execute in list order: Execute is not called
\* on a child before the Execute call of the child before it has returned.
C14_SeriesStrictOrder ==
    \A j \in SeriesJobs : \A i \in 2..Len(Kids(j)) :
        Entered(Kids(j)[i]) => npc[Kids(j)[i - 1]] = "ret"

\* the second child of a series is in its run after the first child's process
\* was started, has terminated and was reaped
C14_Witness ==
    \E j \in SeriesJobs :
        /\ nproc[Kids(j)[1]] = "reaped"
        /\ npc[Kids(j)[1]] = "ret"
        /\ npc[Kids(j)[2]] = "cmdwait"

\* C15: the main action of a parallel node is complete only when every branch
\* has returned: once the node is past executeJob no branch is still running,
\* and no after hook of the node is entered before all branches have returned.
C15_ParallelJoinBeforeAfter ==
    \A j \in ParallelJobs :
        /\ PastMain(j) => \A k \in SeqSet(Kids(j)) : npc[k] \in {"idle", "ret"}
        /\ \A a \in SeqSet(After(j)) :
               Entered(a) => \A k \in SeqSet(Kids(j)) : npc[k] = "ret"

\* an after hook of a parallel node runs its command after both branches ran
\* theirs
C15_Witness ==
    \E j \in ParallelJobs :
        /\ \A k \in SeqSet(Kids(j)) : nproc[k] = "reaped" /\ npc[k] = "ret"
        /\ nproc[After(j)[1]] = "running"

\* C16: the branches of a parallel node run concurrently: while the node waits
\* for its branches every branch has been started, none was held back until
\* another one finished.
C16_ParallelBranchesConcurrent ==
    \A j \in ParallelJobs :
        npc[j] = "pwait" => \A k \in SeqSet(Kids(j)) : Entered(k)

\* the processes of all branches of a parallel node are running at once
C16_Witness ==
    \E j \in ParallelJobs :
        /\ npc[j] = "pwait"
        /\ \A k \in SeqSet(Kids(j)) : nproc[k] = "running" /\ npc[k] = "cmdwait"

\* executeJob has passed its context check for node j and not yet returned
InMain(j) == npc[j] \in {"start", "register", "cmdwait", "cleanup", "series", "swait", "pwait"}

\* the main action of node j has started
MainStarted(j) == InMain(j) \/ StartCalled(j) \/ \E k \in SeqSet(Kids(j)) : Entered(k)

\* C17: the before hooks of a node run in list order and have all returned
\* before the node's main action starts; the after hooks are started in list
\* order, and only after the main action has finished; under a context that
\* is never cancelled a node that has returned has run all of them.
C17_BeforeMainAfterOrder ==
    \A j \in Jobs :
        /\ \A i \in 2..Len(Before(j)) : Entered(Before(j)[i]) => npc[Before(j)[i - 1]] = "ret"
        /\ MainStarted(j) => \A b \in SeqSet(Before(j)) : npc[b] = "ret"
        /\ \A a \in SeqSet(After(j)) :
               Entered(a) => MainStarted(j) /\ ~InMain(j) /\ nproc[j] \notin {"running", "killed", "exited"}
        /\ \A i \in 2..Len(After(j)) : Entered(After(j)[i]) => npc[After(j)[i - 1]] = "ret"
        /\ npc[j] = "ret" /\ ~ectx =>
               /\ \A h \in SeqSet(Before(j)) \cup SeqSet(After(j)) : npc[h] = "ret"
               /\ MainStarted(j)

\* a command with two before and two after hooks has returned under a context
\* that was not cancelled, and the commands of all five nodes ran
C17_Witness ==
    \E j \in Jobs :
        /\ Len(Before(j)) > 1 /\ Len(After(j)) > 1
        /\ ~ectx
        /\ npc[j] = "ret" /\ nproc[j] = "reaped"
        /\ \A h \in SeqSet(Before(j)) \cup SeqSet(After(j)) : nproc[h] = "reaped"

CutShort(j) ==
    /\ ectx
    /\ Len(Before(j)) > 0 /\ Entered(Before(j)[1])
    /\ ~MainStarted(j)

\* C19: when the context is cancelled while a before hook of a node is running,
\* from then on no before hook of the node that was not yet started is started,
\* nor its main action, nor an after hook; the hooks that have already run and
\* returned stay as they are.
C19_CancelStopsBeforeList ==
    [][\A j \in Jobs :
        CutShort(j) =>
            /\ \A h \in SeqSet(Before(j)) \cup SeqSet(After(j)) : ~Entered(h) => ~Entered(h)'
            /\ ~MainStarted(j)'
            /\ \A h \in SeqSet(Before(j)) :
                   npc[h] = "ret" =>
                       /\ npc'[h] = "ret"
                       /\ nproc'[h] = nproc[h]
                       /\ nexit'[h] = nexit[h]]_vars

\* a node has returned after a cancellation during its first before hook: that
\* hook ran its command, the second before hook, the main action and the after
\* hooks were never started
C19_Witness ==
    \E j \in Jobs :
        /\ Len(Before(j)) > 1
        /\ ectx
        /\ npc[j] = "ret"
        /\ nproc[Before(j)[1]] = "reaped" /\ npc[Before(j)[1]] = "ret"
        /\ ~Entered(Before(j)[2])
        /\ ~MainStarted(j)
        /\ \A a \in SeqSet(After(j)) : ~Entered(a)

\* C20: every process started while the top-level job runs, at any depth of
\* its tree, is in the registry under the top-level name from its registration
\* until it is cleaned up or the name is stopped after a cancellation.
C20_AllProcessesUnderTopName ==
    \A j \in Jobs :
        ~ectx /\ npc[j] = "cmdwait" =>
            TopName \in DOMAIN registry /\ j \in SeqSet(registry[TopName])

----------------------------------------------------------------------------
(* Further properties of the manager and the registry                      *)

\* C21: a StopAll that finds no job registered has nothing to wait for, so it
\* can return at once, and none of its steps changes the manager's map, the
\* process registry or any context.
C21_StopAllOnEmpty ==
    /\ [](saPc = "wait" /\ saSnap = {} =>
             /\ \A n \in Names : saStop[n] = NoStopper
             /\ ENABLED StopAllReturn)
    /\ [][saVars' # saVars /\ saSnap' = {} =>
             /\ running' = running
             /\ nextID' = nextID
             /\ registry' = registry
             /\ cancelled' = cancelled]_vars

\* StopAll has returned after it found no job registered, while the registry
\* still had an entry, which it left alone
C21_Witness ==
    /\ saPc = "done"
    /\ saSnap = {}
    /\ DOMAIN running = {}
    /\ DOMAIN registry # {}

----------------------------------------------------------------------------
(* Properties of the configuration loader                                  *)

\* the number of action kinds a YAML job node populates
Populated(node) ==
    Cardinality({k \in {"cmd", "series", "parallel"} :
        \/ k = "cmd" /\ node.cmd # ""
        \/ k = "series" /\ node.series # <<>>
        \/ k = "parallel" /\ node.parallel # <<>>})

NestedNodes(node) ==
    SeqSet(node.series) \cup SeqSet(node.parallel) \cup SeqSet(node.before) \cup SeqSet(node.after)

\* the node, or a job node nested in it at some depth, populates two kinds
RECURSIVE Ambiguous(_)
Ambiguous(node) == Populated(node) > 1 \/ \E k \in NestedNodes(node) : Ambiguous(k)

\* the number of action kinds a Job value has set
KindsSet(job) ==
    Cardinality({k \in {"cmd", "series", "parallel"} :
        \/ k = "cmd" /\ job.Cmd # ""
        \/ k = "series" /\ job.Series # <<>>
        \/ k = "parallel" /\ job.Parallel # <<>>})

NestedJobs(job) ==
    SeqSet(job.Series) \cup SeqSet(job.Parallel) \cup SeqSet(job.Before) \cup SeqSet(job.After)

\* the Job and every job nested in it have at most one action kind
RECURSIVE SingleKind(_)
SingleKind(job) == KindsSet(job) <= 1 /\ \A k \in NestedJobs(job) : SingleKind(k)

\* C22: a job node that populates more than one of cmd, series and parallel,
\* itself or in a nested job, makes FromFile return an error, so that every Job
\* FromFile hands to the program has at most one action kind at every depth.
C22_TwoKindsRejected ==
    /\ loaded.state # "none" /\ Ambiguous(yamlNode) => loaded.state = "error"
    /\ loaded.state = "ok" => SingleKind(loaded.job)

\* a node with cmd and series, and a node whose nested job has cmd and series,
\* were rejected
C22_Witness ==
    /\ loaded.state = "error"
    /\ \/ Populated(yamlNode) > 1
       \/ Populated(yamlNode) = 1 /\ \E k \in NestedNodes(yamlNode) : Populated(k) > 1

\* StopAll is waiting on the channel of a stopCommand that has not finished
StopAllWaiting == saPc = "wait" /\ \E n \in Names : saStop[n].pc \in {"pop", "kill"}

\* C23: while StopAll waits for processes to be stopped it does not hold the
\* manager lock: a deregister closure and a Register call, for any name, can
\* take the lock during that wait.
C23_StopAllWaitsUnlocked ==
    StopAllWaiting =>
        /\ mu # MainLock
        /\ \A c \in Calls :
               /\ pc[c] = "dereg" => ENABLED Deregister(c)
               /\ pc[c] = "idle" => \A n \in Names : ENABLED RegisterCheck(c, n)
               /\ pc[c] = "store" => ENABLED RegisterStore(c)

\* call c's deregister closure runs in this step
DeregisterStep(c) == pc[c] = "dereg" /\ pc'[c] = "done"

\* call c's Register stores its entry in this step
StoreStep(c) == pc[c] \in {"store", "wait"} /\ pc'[c] = "exec"

\* C24: the entry of a name leaves the manager's map only in a step of the
\* deregister closure that was created with the instance the entry holds, and
\* the instance of a name changes only when a Register of that same name stores
\* its own: StopAll, a Register of another name and every other deregister
\* closure leave the entry as it is.
C24_OnlyOwnDeregisterRemoves ==
    [][\A n \in DOMAIN running :
        /\ n \notin DOMAIN running' =>
               \E c \in AllCalls :
                   DeregisterStep(c) /\ jobName[c] = n /\ jobID[c] = running[n]
        /\ n \in DOMAIN running' /\ running'[n] # running[n] =>
               \E c \in AllCalls :
                   StoreStep(c) /\ jobName[c] = n /\ jobID'[c] = running'[n]]_vars

\* StopAll has stopped the instance of a name and returned, and the run of
\* another name or a superseded run of the same name has called its deregister
\* closure; the entry of the instance is still in the map
C24_Witness ==
    \E n \in DOMAIN running :
        /\ saPc = "done" /\ running[n] \in saSnap
        /\ \E c \in Calls :
               pc[c] = "done" /\ (jobName[c] # n \/ jobID[c] # running[n])

\* the calls whose Register has stored its entry
Stored == {c \in AllCalls : jobID[c] # 0}

\* C25: the instance ids are unique, no stored id exceeds jm.nextID, and every
\* Register stores an id greater than all the ids stored before it, whatever
\* the names and the interleaving of the calls.
C25_IdsUniqueIncreasing ==
    /\ [](/\ \A c, d \in Stored : c # d => jobID[c] # jobID[d]
          /\ \A c \in Stored : jobID[c] >= 1 /\ jobID[c] <= nextID
          /\ \A n \in DOMAIN running : running[n] >= 1 /\ running[n] <= nextID)
    /\ [][\A c \in AllCalls :
            StoreStep(c) =>
                /\ \A d \in Stored : jobID'[c] > jobID[d]
                /\ jobID'[c] > nextID
                /\ jobID'[c] = nextID'
                /\ running'[jobName[c]] = jobID'[c]]_vars

\* three calls have stored their ids; two of them were concurrent calls for
\* the same name, neither of which found the other's entry, the third one
\* registered another name
C25_Witness ==
    /\ \A c \in RegCalls : c \in Stored
    /\ \E c, d, e \in RegCalls :
        /\ c # d
        /\ jobName[c] = jobName[d] /\ existingJob[c] = 0 /\ existingJob[d] = 0
        /\ jobName[e] # jobName[c]
    /\ nextID = Cardinality(RegCalls)

\* the call whose Register created instance i has registered name n
InstanceOf(i, n) == \E d \in AllCalls : jobID[d] = i /\ jobName[d] = n

\* C26: the context of an instance becomes done only in the step of a later
\* Register of the same name that found the instance in the map, or in the
\* step of StopAll that cancels the running jobs: no step of a Register of
\* another name and no deregister closure cancels it.
C26_CancelOnlyBySupersessionOrStopAll ==
    [][\A i \in Ids :
        ~cancelled[i] /\ cancelled'[i] =>
            \/ \E c \in AllCalls :
                   /\ pc[c] = "cancel" /\ pc'[c] = "wait"
                   /\ existingJob[c] = i
                   /\ InstanceOf(i, jobName[c])
            \/ saPc = "idle" /\ saPc' = "wait" /\ i \in RunningIds]_vars

\* a run is under a context that is not done although a Register of another
\* name came after it and the run of that name has deregistered
C26_Witness ==
    \E c, d \in Calls :
        /\ pc[c] \in {"exec", "start", "register", "cmdwait"}
        /\ ~cancelled[jobID[c]]
        /\ pc[d] = "done"
        /\ jobName[d] # jobName[c]
        /\ jobID[d] > jobID[c]

\* the stopCommand goroutines that are in their kill loop
KillingStoppers ==
    {stopper[c] : c \in {d \in AllCalls : stopper[d].pc = "kill"}}
        \cup {saStop[n] : n \in {m \in Names : saStop[m].pc = "kill"}}

\* C27: an error of the kill on one handle does not end the stop sequence: the
\* loop stays at the handles it has not visited yet, its next step is enabled,
\* and when the channel is closed the kill has been attempted on every popped
\* handle, so that none of their processes is left running unsignalled.
C27_KillFailureDoesNotAbort ==
    /\ \A st \in DoneStoppers :
           /\ \A h \in SeqSet(st.popped) : proc[h] # "running"
           /\ SeqSet(st.failed) \subseteq SeqSet(st.popped)
    /\ \A st \in KillingStoppers :
           /\ st.cmds # <<>>
           /\ \A h \in SeqSet(st.popped) \ SeqSet(st.cmds) : proc[h] # "running"
    /\ \A c \in AllCalls : stopper[c].pc = "kill" => ENABLED StopKill(c)
    /\ \A n \in Names : saStop[n].pc = "kill" => ENABLED SaStopKill(n)

\* a stopCommand has closed its channel after the kill failed on the first of
\* two handles and was sent to the second one
C27_Witness ==
    \E st \in DoneStoppers :
        /\ Len(st.popped) > 1
        /\ st.failed = <<st.popped[1]>>
        /\ proc[st.popped[2]] = "killed"

\* the list s without the handle h, the other handles in their order
Without(s, h) == SelectSeq(s, LAMBDA x : x # h)

\* the registry after the handle h of name n was unregistered: the name's list
\* has lost h and nothing else, every other name has its list as before
Unregistered(reg, n, h) ==
    [m \in DOMAIN reg |-> IF m = n THEN Without(reg[m], h) ELSE reg[m]]

\* C28: a step of cleanupProcess for the handle h of name n removes h from the
\* list of n and nothing else: the other handles of n stay, in their order, and
\* the lists of all other names are unchanged.
C28_UnregisterRemovesExactlyOne ==
    [][/\ \A c \in AllCalls :
            pc[c] = "cleanup" /\ pc'[c] # "cleanup" =>
                registry' = Unregistered(registry, jobName[c], jobID[c])
       /\ \A j \in Jobs :
            npc[j] = "cleanup" /\ npc'[j] # "cleanup" =>
                registry' = Unregistered(registry, nname[j], j)]_vars

\* a run has unregistered its handle and the handle of another run of the
\* same name, registered before it, is still in the list
C28_Witness ==
    \E c, d \in Calls :
        /\ c # d
        /\ pc[c] \in {"dereg", "done"} /\ proc[jobID[c]] = "reaped"
        /\ pc[d] = "cmdwait" /\ jobID[d] < jobID[c]
        /\ jobName[c] = jobName[d]
        /\ jobName[c] \in DOMAIN registry
        /\ registry[jobName[c]] = <<jobID[d]>>

\* a stopCommand for name n has closed its channel
StopCompleted(n) ==
    \/ \E c \in AllCalls : stopper[c].pc = "done" /\ jobName[c] = n
    \/ saStop[n].pc = "done"

\* runCommand has returned in every run of name n
RunnersReturned(n) ==
    \A c \in AllCalls : jobName[c] = n => pc[c] \in {"dereg", "done"}

\* C29: cleanupProcess on a handle that a stopCommand has already taken out of
\* the registry changes nothing, and once a stopCommand for a name has
\* completed and runCommand has returned for every process of the name, the
\* registry has no entry for the name.
C29_NoEntryAfterStopAndReturn ==
    \A n \in Names :
        StopCompleted(n) /\ RunnersReturned(n) => n \notin DOMAIN registry

\* C30: a handle is in a list of the registry only after its process was
\* started and while its runner has not returned: once runCommand has returned
\* for a process, whether it exited on its own or was killed, its handle is in
\* no name's list.
C30_HandleListedOnlyWhileRunning ==
    /\ root = 0 =>
        \A c \in AllCalls :
            /\ pc[c] \notin {"cmdwait", "cleanup"} => jobID[c] \notin HandlesOf(registry)
            /\ jobID[c] \in HandlesOf(registry) => proc[jobID[c]] # "none"
    /\ root # 0 =>
        \A j \in Jobs :
            /\ npc[j] \notin {"cmdwait", "cleanup"} => j \notin HandlesOf(registry)
            /\ j \in HandlesOf(registry) => nproc[j] \notin {"none", "failed"}

\* a run that no stopCommand interfered with has returned from runCommand: its
\* process exited on its own and its handle has left the list of its name
C30_Witness ==
    \E c \in Calls :
        /\ pc[c] \in {"dereg", "done"}
        /\ proc[jobID[c]] = "reaped"
        /\ ~cancelled[jobID[c]]
        /\ saPc = "idle" /\ \A d \in Calls : stopper[d].pc = "none"
        /\ jobName[c] \in DOMAIN registry
        /\ registry[jobName[c]] = <<>>

----------------------------------------------------------------------------
(* Further properties of the runner and the execution engine               *)

\* C31: when cmd.Start fails the runner returns without registering a handle:
\* the failed start leaves the registry unchanged, and the handle of a command
\* that failed to start is never in a list of the registry.
C31_FailedStartRegistersNothing ==
    /\ [](\A j \in Jobs :
            nproc[j] = "failed" =>
                /\ j \notin HandlesOf(registry)
                /\ npc[j] \notin {"register", "cmdwait", "cleanup"})
    /\ [][\A j \in Jobs :
            npc[j] = "start" /\ nproc'[j] = "failed" => registry' = registry]_vars

\* under a context that is not cancelled one parallel branch failed to start
\* and has returned, while the handle of its sibling is registered
C31_Witness ==
    \E p \in ParallelJobs : \E j, k \in SeqSet(Kids(p)) :
        /\ ~ectx
        /\ nproc[j] = "failed" /\ npc[j] = "ret"
        /\ TopName \in DOMAIN registry /\ registry[TopName] = <<k>>

\* the nodes Execute is called on from node j: its hooks and its children
Children(j) == SeqSet(Before(j)) \cup SeqSet(Kids(j)) \cup SeqSet(After(j))

\* node j and all the nodes below it
RECURSIVE Tree(_)
Tree(j) == {j} \cup UNION {Tree(k) : k \in Children(j)}

----------------------------------------------------------------------------
(* Further properties of stopCommand and of the manager                    *)

\* the list stopCommand(n) finds in runningProcesses
ListOf(n) == IF n \in DOMAIN registry THEN registry[n] ELSE <<>>

\* the step in which the stopCommand goroutine of call c, or the one StopAll
\* spawned for name n, takes the list
CallPops(c) == stopper[c].pc = "pop" /\ stopper'[c].pc # "pop"
StopAllPops(n) == saStop[n].pc = "pop" /\ saStop'[n].pc # "pop"

\* handle h, the process of the run with id h, was registered under name n
RegisteredUnder(h, n) == \A c \in AllCalls : jobID[c] = h => jobName[c] = n

\* C33: stopCommand takes a name's list and clears it in one step: the step
\* hands the whole list to the goroutine, removes the name's key and leaves the
\* lists of the other names as they are; no handle is in the lists taken by two
\* stopCommand goroutines, and every handle a goroutine took was registered
\* under the goroutine's name.
C33_PopIsAtomic ==
    /\ [](/\ \A c, d \in AllCalls :
                c # d => SeqSet(stopper[c].popped) \cap SeqSet(stopper[d].popped) = {}
          /\ \A c \in AllCalls : \A n \in Names :
                SeqSet(stopper[c].popped) \cap SeqSet(saStop[n].popped) = {}
          /\ \A n, m \in Names :
                n # m => SeqSet(saStop[n].popped) \cap SeqSet(saStop[m].popped) = {}
          /\ \A c \in AllCalls : \A h \in SeqSet(stopper[c].popped) :
                RegisteredUnder(h, jobName[c])
          /\ \A n \in Names : \A h \in SeqSet(saStop[n].popped) :
                RegisteredUnder(h, n))
    /\ [][/\ \A c \in AllCalls :
                CallPops(c) =>
                    /\ stopper'[c].popped = ListOf(jobName[c])
                    /\ registry' = MapDelete(registry, jobName[c])
          /\ \A n \in Names :
                StopAllPops(n) =>
                    /\ saStop'[n].popped = ListOf(n)
                    /\ registry' = MapDelete(registry, n)]_vars

\* a Register call still waits on its stopCommand, which found no handle, while
\* the stopCommand StopAll spawned for the same name took the name's handle and
\* is killing it
C33_Witness ==
    \E c \in AllCalls :
        /\ pc[c] = "wait" /\ stopper[c].pc = "done" /\ stopper[c].popped = <<>>
        /\ saStop[jobName[c]].pc = "kill" /\ saStop[jobName[c]].popped # <<>>

----------------------------------------------------------------------------
(* Properties of the program's shutdown                                    *)

\* goroutine c is in its run: Register has returned to it and it has not
\* called its deregister closure
InRun(c) == pc[c] \in {"exec", "start", "register", "cmdwait", "cleanup"}

\* C34: the context Register returns descends from the context of its caller:
\* when the context the watcher and its dispatch goroutines were started under
\* is done, the context of every run is done.
C34_RunContextInheritsCallerContext ==
    \A c \in Calls : InRun(c) /\ shutdownCtx => cancelled[jobID[c]]

\* C35: during shutdown main calls StopAll once, after its context was
\* cancelled and startWatch has returned, and exits only after StopAll has
\* returned.
C35_StopAllOnceBeforeExit ==
    /\ stopAllCalls <= 1
    /\ stopAllCalls = 0 <=> saPc = "idle"
    /\ saPc # "idle" => shutdownCtx /\ watcher = "finished"
    /\ hostPc = "exited" => stopAllCalls = 1 /\ saPc = "done"

\* main has exited after a StopAll that took the handle of a started process
\* and sent it the kill
C35_Witness ==
    /\ hostPc = "exited"
    /\ \E n \in Names : saStop[n].popped # <<>> /\ saStop[n].pc = "done"

----------------------------------------------------------------------------
(* Further properties of the execution engine                              *)

\* the nodes below a series or parallel node: its children and branches, with
\* their hooks and what is nested in them
NestedIn(p) == UNION {Tree(k) : k \in SeqSet(Kids(p))}

----------------------------------------------------------------------------
(* Further properties of the manager                                       *)

\* C37: every run whose Register has returned, whose context is not cancelled
\* and whose deregister closure has not been called is the instance jm.running
\* holds for its name.
C37_LiveRunIsTracked ==
    \A c \in AllCalls :
        Returned(c) /\ pc[c] # "done" /\ ~cancelled[jobID[c]] =>
            /\ jobName[c] \in DOMAIN running
            /\ running[jobName[c]] = jobID[c]

\* the nodes a series or parallel node runs as its children
ChildJobs == UNION {SeqSet(JobTable[p].kids) : p \in SeriesJobs \cup ParallelJobs}

\* C39: the hooks of a child of a series or parallel node are honoured: the
\* main action of the child starts only after every job of the child's before
\* list has run and returned, and when the child has returned under a context
\* that is not cancelled every job of its after list has run and returned.
C39_HooksAtEveryLevel ==
    \A k \in ChildJobs :
        /\ MainStarted(k) =>
              \A h \in SeqSet(JobTable[k].before) : npc[h] = "ret"
        /\ npc[k] = "ret" /\ ~ectx =>
              \A h \in SeqSet(JobTable[k].before) \cup SeqSet(JobTable[k].after) :
                  npc[h] = "ret"

\* goroutine c is inside Register
InRegister(c) == pc[c] \in {"cancel", "wait", "store"}

\* C38: a run whose context was cancelled, by a Register that supersedes it or
\* by StopAll, eventually returns from its execution and calls its deregister
\* closure, given that a process that was killed terminates.
C38_CancelledRunEnds ==
    \A c \in Calls : (Returned(c) /\ cancelled[jobID[c]]) ~> pc[c] = "done"

\* a run was cancelled while its process ran and had forked a child; the
\* process was killed and reaped, the run has deregistered, the child lives on
C38_Witness ==
    \E c \in Calls :
        /\ pc[c] = "done" /\ cancelled[jobID[c]]
        /\ proc[jobID[c]] = "reaped" /\ child[jobID[c]] = "running"

\* C40: every call of Register eventually returns and so does StopAll: the
\* channel of every stopCommand they wait on is closed, also when the name has
\* no list in the registry and when a kill fails.
C40_RegisterReturns ==
    /\ \A c \in Calls : InRegister(c) ~> Returned(c)
    /\ saPc = "wait" ~> saPc = "done"

\* a Register has returned whose stopCommand found no list for the name, and
\* StopAll has returned after a stopCommand whose kill failed
C40_Witness ==
    /\ \E c \in Calls :
          Returned(c) /\ stopper[c].pc = "done" /\ stopper[c].popped = <<>>
    /\ saPc = "done"
    /\ \E n \in Names : saStop[n].failed # <<>>

====
